---- MODULE Spec2Model ----
(***************************************************************************)
(* ueGear: the helper functions of helpers.py and assets.py, a layer of    *)
(* synchronous functions over the Unreal editor scripting API.             *)
(*                                                                         *)
(* One call runs at a time (single-threaded, call and return).  A call     *)
(* draws its arguments and the host's answers from small sets, runs the    *)
(* function body and leaves in the state: the arguments (args), the        *)
(* outcome (ret: a returned value or a raised exception), the messages     *)
(* logged through unreal.log* (log) and the host API calls made (host).    *)
(* A function with a loop over host state (create_folder) runs one         *)
(* iteration per step; pc says whether a call is in progress.              *)
(***************************************************************************)
EXTENDS Integers, Sequences, FiniteSets, TLC

VARIABLES
    pc,             \* "idle", "done" (a call returned or raised), or the
                    \* function whose loop is in progress
    op,             \* the function called last ("none" before any call)
    args,           \* its arguments and the host's answers, as given
    ret,            \* its outcome: [kind |-> "return" | "raise" | "running", ...]
    log,            \* the unreal.log / log_warning / log_error calls it made
    host,           \* the host API calls it made, in order
    dirs,           \* the directories existing in the host (EditorAssetLibrary)
    name,           \* create_folder: local variable name
    index,          \* create_folder: local variable index
    fbx_options,    \* the caller's options dictionary object, as the call left it
    prev,           \* the outcome of the call before, when a call is repeated
    created_folder, \* move_assets_to_path: local variable created_folder
    todo            \* move_assets_to_path: the asset paths the loop has yet to take

vars == <<pc, op, args, ret, log, host, dirs, name, index, fbx_options, prev,
          created_folder, todo>>

-----------------------------------------------------------------------------
(* Bounds of the model *)

\* longest list handed to the list helpers
MaxLen == 3
\* list indexes range over -(MaxLen + IndexSlack) .. MaxLen + IndexSlack
IndexSlack == 2
\* create_folder: the host may already hold name, name1, name12, ... up to
\* MaxChain suffixes, and at most MaxDirs directories in all
MaxChain == 2
MaxDirs == 3
\* create_folder: the loop counter is followed up to MaxIndex
MaxIndex == 5
\* transform components range over -MaxCoord .. MaxCoord
MaxCoord == 1
\* a level sequence holds at most MaxBindings bindings and MaxTracks master tracks
MaxBindings == 2
MaxTracks == 2

-----------------------------------------------------------------------------
(* Python values *)

\* Python's None, where a string is expected
PyNone == "None"

Return(v) == [kind |-> "return", val |-> v]

\* `return True`, `return False`
ReturnBool(b) == [kind |-> "return", flag |-> b]

\* a list returned
ReturnList(l) == [kind |-> "return", items |-> l]

\* the tuple of translation, rotation and scale returned
ReturnTransforms(t) == [kind |-> "return", transforms |-> t]

\* `return task`
ReturnTask(t) == [kind |-> "return", task |-> t]

Raise(e) == [kind |-> "raise", exc |-> e]

Abs(i) == IF i < 0 THEN -i ELSE i

\* the elements a list may hold
Items == {"x", "y"}

SeqsUpTo(S, n) == UNION {[1..k -> S] : k \in 0..n}

\* a list argument: None, or a list of items
ListArgs ==
    {[isNone |-> TRUE, items |-> <<>>]}
        \cup {[isNone |-> FALSE, items |-> s] : s \in SeqsUpTo(Items, MaxLen)}

Defaults == {PyNone, "dflt"}

\* bool(list_arg): None and the empty list are falsy
Truthy(list_arg) == ~list_arg.isNone /\ Len(list_arg.items) > 0

\* list_arg[index]: Python indexes from 0, a negative index counts from the
\* end, and an index outside -len..len-1 raises IndexError
PyGetItem(items, i) ==
    IF 0 <= i /\ i < Len(items) THEN Return(items[i + 1])
    ELSE IF i < 0 /\ -Len(items) <= i THEN Return(items[Len(items) + i + 1])
    ELSE Raise("IndexError")

-----------------------------------------------------------------------------
(* helpers.py: list helpers *)

\* the guard of the conditional expression: `list_arg and len(list_arg) > abs(index)`
InRangeGuardNonStrict(list_arg, i) ==
    Truthy(list_arg) /\ Len(list_arg.items) >= Abs(i)

InRangeGuard(list_arg, i) ==
    Truthy(list_arg) /\ Len(list_arg.items) > Abs(i)

get_index_in_list(list_arg, i, default) ==
    IF InRangeGuard(list_arg, i) THEN PyGetItem(list_arg.items, i)
    ELSE Return(default)

get_first_in_list(list_arg, default) ==
    get_index_in_list(list_arg, 0, default)

-----------------------------------------------------------------------------
(* helpers.py: create_temporary_directory *)

\* str.format over the characters of the format string: '{}' takes the next
\* argument, '{{' and '}}' are the literal braces, and a brace of neither
\* form raises ValueError ("Single '}' encountered in format string")
RECURSIVE PyFormat(_, _)
PyFormat(fmt, fargs) ==
    LET rest(n, a) == PyFormat(SubSeq(fmt, n + 1, Len(fmt)), a)
        then(text, r) == IF r.ok THEN [ok |-> TRUE, text |-> text \o r.text, exc |-> ""]
                         ELSE r
        two == IF Len(fmt) >= 2 THEN <<fmt[1], fmt[2]>> ELSE <<>>
    IN  IF fmt = <<>> THEN [ok |-> TRUE, text |-> "", exc |-> ""]
        ELSE IF two = <<"{", "{">> THEN then("{", rest(2, fargs))
        ELSE IF two = <<"}", "}">> THEN then("}", rest(2, fargs))
        ELSE IF two = <<"{", "}">>
        THEN IF fargs = <<>> THEN [ok |-> FALSE, text |-> "", exc |-> "IndexError"]
             ELSE then(Head(fargs), rest(2, Tail(fargs)))
        ELSE IF fmt[1] \in {"{", "}"}
        THEN [ok |-> FALSE, text |-> "", exc |-> "ValueError"]
        ELSE then(fmt[1], rest(1, fargs))

\* the format string of the directory prefix: '{}}_tmp_'
TmpPrefixFormat == <<"{", "}", "}", "_", "t", "m", "p", "_">>

TmpPrefixes == {"ueGear", "", "rig"}

\* what tempfile.mkdtemp does, once called: the random part of the name it
\* makes, or the OSError it raises
MkdtempAnswers == {"k3x9", "q7w2", "OSError"}

\* tempfile.mkdtemp(prefix='{}}_tmp_'.format(prefix)): the argument is
\* evaluated first
create_temporary_directory(prefix, answer) ==
    LET formatted == PyFormat(TmpPrefixFormat, <<prefix>>) IN
    IF ~formatted.ok THEN [ret |-> Raise(formatted.exc), host |-> <<>>]
    ELSE [ret |-> IF answer = "OSError" THEN Raise("OSError")
                  ELSE Return("/tmp/" \o formatted.text \o answer),
          host |-> <<[fn |-> "mkdtemp", prefix |-> formatted.text]>>]

-----------------------------------------------------------------------------
(* helpers.py: create_folder *)

Roots == {"/Game", "/Game/Props"}

FolderNames == {"Target", "Target1"}

\* '{}/{}'.format(root, name)
FormatPath(root, n) == root \o "/" \o n

\* name = '{}{}'.format(name, index)
SuffixedKeepsName(n, i) == n

Suffixed(n, i) == n \o ToString(i)

\* index += 1
NextIndexStuck(i) == i

NextIndex(i) == i + 1

\* n with the suffixes 1, 2, ..., k appended one after the other
RECURSIVE Chain(_, _)
Chain(n, k) == IF k = 0 THEN n ELSE Suffixed(Chain(n, k - 1), k)

\* the directories the host may hold when create_folder is called
DirUniverse ==
    {FormatPath(r, Chain(n, k)) : r \in Roots, n \in FolderNames, k \in 0..MaxChain}

HostDirs == {D \in SUBSET DirUniverse : Cardinality(D) <= MaxDirs}

\* unreal.EditorAssetLibrary.does_directory_exist(path)
does_directory_exist(path) == path \in dirs

\* make_directory on the path requested first, whatever the loop found
MadeFirstCandidate(path) == FormatPath(args.root, args.name)

\* the argument of make_directory: the path the check just found free
MadePath(path) == path

-----------------------------------------------------------------------------
(* helpers.py, assets.py: move_assets_to_path *)

MaxAssets == 2

MoveFolderName == "Moved"

\* the names of the directories the host may hold under the root when
\* move_assets_to_path is called
MoveDirUniverse == {Chain(MoveFolderName, k) : k \in 0..MaxChain}

\* an entry of asset_paths, and the name of the asset the host loads from it
\* (None when it holds no asset)
MovedAssets ==
    {[path |-> "/Game/Old/SM_Chair", loaded |-> "SM_Chair"],
     [path |-> "/Game/Old/T_Wood", loaded |-> "T_Wood"],
     [path |-> "/Game/Old/Missing", loaded |-> PyNone]}

MovedAssetLists == SeqsUpTo(MovedAssets, MaxAssets)

\* '{}/{}'.format(root, name) in place of the folder create_folder returned
MoveDestinationUnderRequested(folder, asset_name) ==
    FormatPath(FormatPath(args.root, args.name), asset_name)

\* '{}/{}'.format(created_folder, loaded.get_name())
MoveDestination(folder, asset_name) == FormatPath(folder, asset_name)

-----------------------------------------------------------------------------
(* helpers.py: convert_maya_transforms_into_unreal_transforms *)

Coords == -MaxCoord..MaxCoord

\* a translation or rotation argument: three components, or a falsy value
\* (None, an empty list), written <<>>
TransformArgs == [1..3 -> Coords] \cup {<<>>}

ScaleArgs == {<<>>, <<1, 1, 1>>, <<1, 2, 3>>, <<-1, 0, 2>>}

\* `value or [a, b, c]`
OrDefault(v, d) == IF v = <<>> THEN d ELSE v

\* unreal.Vector(x, y, z) and unreal.Rotator(a, b, c), by their constructor
\* arguments in order
convert_without_sign_flip(translation, rotation, scale) ==
    LET maya_translation == OrDefault(translation, <<0, 0, 0>>)
        maya_rotation == OrDefault(rotation, <<0, 0, 0>>)
        maya_scale == OrDefault(scale, <<1, 1, 1>>)
    IN  [translation |-> <<maya_translation[1], maya_translation[3], maya_translation[2]>>,
         rotation |-> <<maya_rotation[1], maya_rotation[3], maya_rotation[2]>>,
         scale |-> <<maya_scale[1], maya_scale[3], maya_scale[2]>>]

convert_maya_transforms_into_unreal_transforms(translation, rotation, scale) ==
    LET maya_translation == OrDefault(translation, <<0, 0, 0>>)
        maya_rotation == OrDefault(rotation, <<0, 0, 0>>)
        maya_scale == OrDefault(scale, <<1, 1, 1>>)
    IN  [translation |-> <<maya_translation[1], maya_translation[3], maya_translation[2]>>,
         rotation |-> <<maya_rotation[1], maya_rotation[3], maya_rotation[2] * (-1)>>,
         scale |-> <<maya_scale[1], maya_scale[3], maya_scale[2]>>]

-----------------------------------------------------------------------------
(* helpers.py, assets.py: import and export task builders *)

\* A dictionary is a function from its keys to their values.  An options
\* dictionary of the FBX import is [isNone, items, hasSk, sk]: None, or the
\* dictionary of its boolean-valued keys (items) and, when hasSk, the key
\* 'skeletal_mesh_import_data' whose value is the dictionary sk.
EmptyDict == <<>>

DictSet(d, k, v) == [x \in DOMAIN d \cup {k} |-> IF x = k THEN v ELSE d[x]]

DictRemove(d, k) == [x \in DOMAIN d \ {k} |-> d[x]]

DictsOver(Keys, Values) == UNION {[K -> Values] : K \in SUBSET Keys}

\* the keys of a dictionary in the order .items() yields them: the order of
\* insertion, taken here to be the order of KeyOrder
KeyOrder ==
    <<"import_materials", "import_textures", "import_as_skeletal", "bogus_option",
      "mesh_type_to_import", "skeletal_mesh_import_data", "import_morph_targets", "bogus_skeletal_option",
      "ascii", "collision", "level_of_detail", "vertex_color", "bogus_export_option",
      "create_material", "no_alpha", "bogus_texture_option">>

KeysOf(d) == SelectSeq(KeyOrder, LAMBDA k : k \in DOMAIN d)

Warning(msg, about) == [level |-> "warning", msg |-> msg, about |-> about]

\* for name, value in options.items():
\*     try: obj.set_editor_property(name, value)
\*     except Exception: unreal.log_warning(msg + name)
\* obj is the function from the properties set so far to their values; the
\* host raises for the names in failing
RECURSIVE set_editor_properties_one_try(_, _, _, _, _)
set_editor_properties_one_try(obj, keys, options, failing, msg) ==
    IF keys = <<>> THEN [obj |-> obj, log |-> <<>>]
    ELSE IF Head(keys) \in failing
    THEN [obj |-> obj, log |-> <<Warning(msg, Head(keys))>>]
    ELSE set_editor_properties_one_try(
            DictSet(obj, Head(keys), options[Head(keys)]),
            Tail(keys), options, failing, msg)

RECURSIVE set_editor_properties(_, _, _, _, _)
set_editor_properties(obj, keys, options, failing, msg) ==
    IF keys = <<>> THEN [obj |-> obj, log |-> <<>>]
    ELSE IF Head(keys) \in failing
    THEN LET rest == set_editor_properties(obj, Tail(keys), options, failing, msg)
         IN  [obj |-> rest.obj, log |-> <<Warning(msg, Head(keys))>> \o rest.log]
    ELSE set_editor_properties(
            DictSet(obj, Head(keys), options[Head(keys)]),
            Tail(keys), options, failing, msg)

DEFAULT_FBX_IMPORT_OPTIONS ==
    [import_materials |-> TRUE, import_textures |-> TRUE, import_as_skeletal |-> FALSE]

DEFAULT_ASSETS_FBX_IMPORT_OPTIONS ==
    [import_materials |-> TRUE, import_textures |-> TRUE, import_as_skeletal |-> FALSE]

DEFAULT_ASSETS_FBX_EXPORT_OPTIONS ==
    [ascii |-> FALSE, collision |-> FALSE, level_of_detail |-> FALSE, vertex_color |-> TRUE]

NoneOptions == [isNone |-> TRUE, items |-> EmptyDict, hasSk |-> FALSE, sk |-> EmptyDict]

\* bool(fbx_options): None and the empty dictionary are falsy
DictTruthy(o) == ~o.isNone /\ (DOMAIN o.items # {} \/ o.hasSk)

\* the dictionary the body works on: `fbx_options or DEFAULT_..._OPTIONS`; the
\* defaults are a dictionary of the module, with neither of the popped keys
OrDefaultOptions(o, defaults) ==
    IF DictTruthy(o) THEN o
    ELSE [isNone |-> FALSE, items |-> defaults, hasSk |-> FALSE, sk |-> EmptyDict]

\* d.get('mesh_type_to_import', False): the value, the key left in place
GetMeshType(o) ==
    [value |-> IF "mesh_type_to_import" \in DOMAIN o.items
               THEN o.items["mesh_type_to_import"] ELSE FALSE,
     after |-> o]

\* d.pop('mesh_type_to_import', False): the value, and the dictionary after
PopMeshType(o) ==
    [value |-> IF "mesh_type_to_import" \in DOMAIN o.items
               THEN o.items["mesh_type_to_import"] ELSE FALSE,
     after |-> [o EXCEPT !.items = DictRemove(o.items, "mesh_type_to_import")]]

\* d.pop('skeletal_mesh_import_data', dict())
PopSkeletalData(o) ==
    [value |-> IF o.hasSk THEN o.sk ELSE EmptyDict,
     after |-> [o EXCEPT !.hasSk = FALSE, !.sk = EmptyDict]]

\* fbx_options.items(): every key the dictionary holds, the key
\* 'skeletal_mesh_import_data' with its dictionary among them
AllItems(o) ==
    IF o.hasSk THEN DictSet(o.items, "skeletal_mesh_import_data", o.sk) ELSE o.items

\* unreal.AssetImportTask(), as the builders fill it
NewImportTask(filename, destination_path, destination_name) ==
    [filename |-> filename,
     destination_path |-> destination_path,
     \* task.destination_name is assigned only `if destination_name:`
     destination_name |-> IF destination_name \in {PyNone, ""} THEN "<unset>"
                          ELSE destination_name,
     replace_existing |-> TRUE,
     automated |-> TRUE,
     save |-> TRUE]

\* generate_fbx_import_task of helpers.py and of assets.py (the same body, over
\* the defaults of its module): the task, the warnings logged, and the
\* dictionary object of the caller as the call leaves it
generate_fbx_import_task(defaults, filename, destination_path, destination_name, options, failing) ==
    LET used == OrDefaultOptions(options, defaults)
        popMesh == PopMeshType(used)
        as_skeletal == popMesh.value
        popSk == PopSkeletalData(popMesh.after)
        skeletal_mesh_import_data == popSk.value
        remaining == popSk.after
        skSet == set_editor_properties(
                    EmptyDict, KeysOf(skeletal_mesh_import_data),
                    skeletal_mesh_import_data, failing,
                    "Was not possible to set Skeletal Mesh FBX Import property")
        sk_assigned == DOMAIN skeletal_mesh_import_data # {}
        baseSet == set_editor_properties(
                    EmptyDict, KeysOf(AllItems(remaining)), AllItems(remaining), failing,
                    "Was not possible to set FBX Import property")
    IN  [task |->
            [task |-> NewImportTask(filename, destination_path, destination_name),
             options |->
                [props |-> baseSet.obj,
                 skeletal_mesh_import_data |->
                    [assigned |-> sk_assigned,
                     props |-> IF sk_assigned THEN skSet.obj ELSE EmptyDict],
                 mesh_type_to_import |->
                    IF as_skeletal THEN "FBXIT_SKELETAL_MESH" ELSE "FBXIT_STATIC_MESH"]],
         log |-> (IF sk_assigned THEN skSet.log ELSE <<>>) \o baseSet.log,
         \* the pops act on the caller's dictionary when it was used, and on
         \* the module's defaults (which they leave as they are) otherwise
         caller_dict |-> IF DictTruthy(options) THEN remaining ELSE options]

\* generate_texture_import_task: `import_options or dict()`
generate_texture_import_task(filename, destination_path, destination_name, import_options, failing) ==
    LET factorySet == set_editor_properties(
                        EmptyDict, KeysOf(import_options.items), import_options.items,
                        failing, "Was not possible to set FBX Import property")
    IN  [task |->
            [task |-> NewImportTask(filename, destination_path, destination_name),
             factory |-> [class |-> "TextureFactory", props |-> factorySet.obj]],
         log |-> factorySet.log]

\* generate_asset_fbx_export_task: the exporter by the asset's class; None, with
\* a warning, when there is none for it
generate_asset_fbx_export_task(asset_class, filename, options, failing) ==
    LET used == OrDefaultOptions(options, DEFAULT_ASSETS_FBX_EXPORT_OPTIONS)
        optionSet == set_editor_properties(
                        EmptyDict, KeysOf(used.items), used.items, failing,
                        "Was not possible to set FBX Export property")
        exporter == IF asset_class = "StaticMesh" THEN "StaticMeshExporterFBX"
                    ELSE IF asset_class = "SkeletalMesh" THEN "SkeletalMeshExporterFBX"
                    ELSE PyNone
    IN  IF exporter = PyNone
        THEN [isNone |-> TRUE,
              task |-> [filename |-> filename],
              log |-> Append(optionSet.log,
                             Warning("has not a compatible exporter", asset_class))]
        ELSE [isNone |-> FALSE,
              task |-> [filename |-> filename, replace_identical |-> TRUE,
                        automated |-> TRUE, object |-> asset_class,
                        options |-> [props |-> optionSet.obj],
                        exporter |-> exporter],
              log |-> optionSet.log]

-----------------------------------------------------------------------------
(* The arguments the builders are called with *)

\* the key 'skeletal_mesh_import_data': absent, or present with a dictionary
SkeletalDataArgs ==
    {[hasSk |-> FALSE, sk |-> EmptyDict]} \cup
    {[hasSk |-> TRUE, sk |-> k] :
        k \in DictsOver({"import_morph_targets", "bogus_skeletal_option"}, {TRUE})}

FbxOptionArgs ==
    {NoneOptions} \cup
    {[isNone |-> FALSE, items |-> i, hasSk |-> h.hasSk, sk |-> h.sk] :
        i \in {d \in DictsOver({"import_materials", "bogus_option", "mesh_type_to_import"},
                                BOOLEAN) :
                    "bogus_option" \in DOMAIN d => d["bogus_option"]},
        h \in SkeletalDataArgs}

FbxOptionNames ==
    {"import_materials", "import_textures", "import_as_skeletal", "bogus_option",
     "import_morph_targets", "bogus_skeletal_option"}

TextureOptionArgs ==
    {NoneOptions} \cup
    {[isNone |-> FALSE, items |-> i, hasSk |-> FALSE, sk |-> EmptyDict] :
        i \in DictsOver({"create_material", "no_alpha", "bogus_texture_option"}, BOOLEAN)}

ExportOptionArgs ==
    {NoneOptions} \cup
    {[isNone |-> FALSE, items |-> i, hasSk |-> FALSE, sk |-> EmptyDict] :
        i \in DictsOver({"ascii", "vertex_color", "bogus_export_option"}, BOOLEAN)}

ExportOptionNames ==
    {"ascii", "collision", "level_of_detail", "vertex_color", "bogus_export_option"}

AssetClasses == {"StaticMesh", "SkeletalMesh", "Texture2D"}

DestinationNames == {PyNone, "Hero"}

Modules == {"helpers", "assets"}

DefaultsOf(module) ==
    IF module = "helpers" THEN DEFAULT_FBX_IMPORT_OPTIONS
    ELSE DEFAULT_ASSETS_FBX_IMPORT_OPTIONS

-----------------------------------------------------------------------------
(* helpers.py: read_json_file, write_to_json_file *)

\* What the file system answers for the file: os.stat (the exception it
\* raises, or "ok"), st_size, open(filename, 'r') and json.load
JsonFiles ==
    [stat : {"ok", "FileNotFoundError", "PermissionError"},
     st_size : {0, 17},
     open : {"ok", "PermissionError"},
     load : {"ok", "JSONDecodeError", "UnicodeDecodeError"}]

\* the outcome and the messages logged.  The stat call comes before the try
\* block; an empty file is answered None; open and json.load are inside it.
read_json_file(filename, file, maintain_order) ==
    LET warned == <<Warning("Could not read", filename)>> IN
    IF file.stat # "ok" THEN [ret |-> Raise(file.stat), log |-> <<>>]
    ELSE IF file.st_size = 0
    THEN [ret |-> [kind |-> "return", isNone |-> TRUE, val |-> PyNone], log |-> <<>>]
    ELSE IF file.open # "ok" THEN [ret |-> Raise(file.open), log |-> warned]
    ELSE IF file.load # "ok" THEN [ret |-> Raise(file.load), log |-> warned]
    ELSE [ret |-> [kind |-> "return", isNone |-> FALSE,
                   val |-> IF maintain_order THEN "OrderedDict" ELSE "dict"],
          log |-> <<>>]

\* What happens to a write: open(filename, 'w') (IOError or "ok"), the
\* serialisation of the data by json.dump (TypeError for a value JSON has no
\* form for, ValueError for a circular reference, or "ok") and the writing
\* of the text (IOError or "ok")
JsonWrites ==
    [open : {"ok", "IOError"},
     dump : {"ok", "TypeError", "ValueError"},
     write : {"ok", "IOError"}]

\* the exceptions the try block of write_to_json_file may end with: json.dump
\* writes as it serialises, so when both fail either one may come first
WriteExceptions(w) ==
    IF w.open # "ok" THEN {w.open}
    ELSE (IF w.dump # "ok" THEN {w.dump} ELSE {})
            \cup (IF w.write # "ok" THEN {w.write} ELSE {})

\* `except IOError`
CaughtByWrite(exc) == exc = "IOError"

\* the outcome of write_to_json_file when its try block ends with exc ("ok":
\* with no exception)
write_to_json_file(filename, exc) ==
    IF exc = "ok"
    THEN [ret |-> [kind |-> "return", isNone |-> FALSE, val |-> filename],
          log |-> <<[level |-> "info", msg |-> "File correctly saved to",
                     about |-> filename]>>]
    ELSE IF CaughtByWrite(exc)
    THEN [ret |-> [kind |-> "return", isNone |-> TRUE, val |-> PyNone],
          log |-> <<[level |-> "error", msg |-> "Data not saved to file",
                     about |-> filename]>>]
    ELSE [ret |-> Raise(exc), log |-> <<>>]

-----------------------------------------------------------------------------
(* helpers.py: get_asset, remove_sequence_camera, get_subsequences *)

BindingNames == {"", "CamA", "CamB"}

DisplayNames == {"CamA", "CamB"}

CameraNames == {"", "CamA", "CamB"}

\* a binding of a level sequence, by what get_name() and get_display_name() give
Bindings == [name : BindingNames, display_name : DisplayNames]

\* what unreal.load_asset gives for the level sequence: None, or the sequence
\* with its bindings
SequenceAssets ==
    {[isNone |-> TRUE, bindings |-> <<>>]} \cup
    {[isNone |-> FALSE, bindings |-> b] : b \in SeqsUpTo(Bindings, MaxBindings)}

\* what get_child_possessables() gives: None, or a list
ChildLists ==
    {[isNone |-> TRUE, items |-> <<>>],
     [isNone |-> FALSE, items |-> <<>>],
     [isNone |-> FALSE, items |-> <<"CameraComponent">>]}

TrackLists == {<<>>, <<"FocalLength">>}

\* bool(s) of a string
StrTruthy(str) == str # ""

\* `binding.get_name() or binding.get_display_name() == camera_name`:
\* == binds tighter than or
BindingMatches(binding, camera_name) ==
    StrTruthy(binding.name) \/ binding.display_name = camera_name

\* the loop with break: the position of the first binding the condition
\* takes, 0 when it takes none (camera_bind stays None)
FindCameraBind(bindings, camera_name) ==
    LET found == {i \in 1..Len(bindings) : BindingMatches(bindings[i], camera_name)}
    IN  IF found = {} THEN 0 ELSE CHOOSE i \in found : \A j \in found : i <= j

\* the host calls of remove_sequence_camera once camera_bind is found
RemovalCalls(bind, children, tracks) ==
    <<[fn |-> "close_level_sequence", target |-> 0]>>
    \o [i \in 1..Len(children.items) |->
            [fn |-> "child.remove", target |-> bind, what |-> children.items[i]]]
    \o [i \in 1..Len(tracks) |->
            [fn |-> "remove_track", target |-> bind, what |-> tracks[i]]]
    \o <<[fn |-> "binding.remove", target |-> bind],
         [fn |-> "refresh_current_level_sequence", target |-> 0],
         [fn |-> "save_loaded_asset", target |-> 0]>>

remove_sequence_camera(asset, camera_name, children, tracks) ==
    LET loaded == <<[fn |-> "load_asset", target |-> 0]>>
        camera_bind == FindCameraBind(asset.bindings, camera_name)
    IN  IF asset.isNone THEN [ret |-> ReturnBool(FALSE), host |-> loaded]
        ELSE IF camera_bind = 0 THEN [ret |-> ReturnBool(FALSE), host |-> loaded]
        ELSE [ret |-> ReturnBool(TRUE),
              host |-> loaded \o RemovalCalls(camera_bind, children, tracks)]

TrackClasses == {"MovieSceneSubTrack", "MovieSceneCameraCutTrack"}

\* what unreal.load_asset gives get_subsequences: None, or the sequence with
\* the classes of its master tracks
TrackedAssets ==
    {[isNone |-> TRUE, tracks |-> <<>>]} \cup
    {[isNone |-> FALSE, tracks |-> t] : t \in SeqsUpTo(TrackClasses, MaxTracks)}

SectionLists == {<<>>, <<"shot010">>, <<"shot010", "shot020">>}

\* sections: what get_sections() of the track found gives
get_subsequences(asset, sections) ==
    LET subs == {i \in 1..Len(asset.tracks) : asset.tracks[i] = "MovieSceneSubTrack"}
    IN  IF asset.isNone THEN ReturnList(<<>>)
        ELSE IF subs = {} THEN ReturnList(<<>>)
        ELSE ReturnList(sections)

\* what the registry gives for the path: None, or the asset data with its
\* full name, "<class> <object path>", as its words
AssetDatas ==
    {[isNone |-> TRUE, full_name |-> <<>>],
     [isNone |-> FALSE, full_name |-> <<"StaticMesh", "/Game/Hero.Hero">>],
     [isNone |-> FALSE, full_name |-> <<"/Game/Props/Crate.Crate">>]}

\* full_name.split(' ')[-1]
LastWord(words) == words[Len(words)]

\* loaded: what unreal.load_asset gives for the path
get_asset(asset_data, loaded) ==
    IF asset_data.isNone
    THEN [ret |-> [kind |-> "return", isNone |-> TRUE, val |-> PyNone], host |-> <<>>]
    ELSE [ret |-> [kind |-> "return", isNone |-> loaded = PyNone, val |-> loaded],
          host |-> <<[fn |-> "load_asset", path |-> LastWord(asset_data.full_name)]>>]

-----------------------------------------------------------------------------
(* helpers.py: create_material                                             *)

\* roughness and specular: None or a number (written as Python writes it)
MaterialValues == {PyNone, "0.2", "0.8"}

\* diffuse_color: None or a tuple of channel values
DiffuseColors ==
    {[isNone |-> TRUE, items |-> <<>>],
     [isNone |-> FALSE, items |-> <<"1", "0">>],
     [isNone |-> FALSE, items |-> <<"1", "0", "0">>]}

RGB == <<"R", "G", "B">>

Min(a, b) == IF a < b THEN a ELSE b

CreateExpression(node, class) ==
    [fn |-> "create_material_expression", node |-> node, class |-> class]

SetProperty(node, prop, value) ==
    [fn |-> "set_editor_property", node |-> node, prop |-> prop, value |-> value]

Connect(node, from_output, property) ==
    [fn |-> "connect_material_property", node |-> node,
     from_output |-> from_output, property |-> property]

\* `if diffuse_color is not None`: a texture sample node, one property per
\* pair of zip(diffuse_color, 'RGB'), connected to the base color
DiffuseNode(diffuse_color) ==
    IF diffuse_color.isNone THEN <<>>
    ELSE <<CreateExpression("ts_node_diffuse", "MaterialExpressionTextureSample")>>
         \o [i \in 1..Min(Len(diffuse_color.items), Len(RGB)) |->
                SetProperty("ts_node_diffuse", RGB[i], diffuse_color.items[i])]
         \o <<Connect("ts_node_diffuse", "RGB", "MP_BASE_COLOR")>>

\* `if roughness is not None`: a constant node holding roughness
RoughnessNode(roughness) ==
    IF roughness = PyNone THEN <<>>
    ELSE <<CreateExpression("ts_node_roughness", "MaterialExpressionConstant"),
           SetProperty("ts_node_roughness", "R", roughness),
           Connect("ts_node_roughness", "", "MP_ROUGHNESS")>>

\* `if specular is not None`: a constant node; the value the code sets on it
\* is `roughness`
SpecularNode(roughness, specular) ==
    IF specular = PyNone THEN <<>>
    ELSE <<CreateExpression("ts_node_specular", "MaterialExpressionConstant"),
           SetProperty("ts_node_specular", "R", roughness),
           Connect("ts_node_specular", "", "MP_SPECULAR")>>

create_material(material_name, material_path, diffuse_color, roughness, specular) ==
    [ret  |-> Return("new_material"),
     host |-> <<[fn |-> "create_asset", material_name |-> material_name,
                 material_path |-> material_path, asset_class |-> "Material"]>>
              \o DiffuseNode(diffuse_color)
              \o RoughnessNode(roughness)
              \o SpecularNode(roughness, specular)]

-----------------------------------------------------------------------------
(* assets.py: export_fbx_asset                                             *)

\* the names the module helpers defines: what `helpers.<name>` finds
HelpersAttributes ==
    {"os", "sys", "json", "tempfile", "OrderedDict", "unreal",
     "print_function", "division", "absolute_import",
     "MATERIAL_SAMPLER_TYPES", "MATERIAL_PROPERTIES", "DEFAULT_FBX_IMPORT_OPTIONS",
     "is_string", "force_list", "get_index_in_list", "get_first_in_list",
     "create_temporary_directory", "read_json_file", "write_to_json_file",
     "get_unreal_version_name", "get_unreal_version",
     "get_current_unreal_project_path", "save_current_level", "get_editor_world",
     "get_game_world", "get_all_actors_in_current_level",
     "get_selected_actors_in_current_level",
     "get_all_actors_and_labels_in_current_level",
     "get_selected_actors_and_labels_in_current_level",
     "get_all_actors_and_names_in_current_level",
     "get_selected_actors_and_names_in_current_level",
     "get_actor_by_label_in_current_level", "delete_actor", "create_folder",
     "list_asset_paths", "asset_exists", "get_asset_unique_name", "rename_asset",
     "move_assets_to_path", "get_assets", "get_asset_data", "get_asset",
     "get_selected_asset_data", "get_selected_assets",
     "find_all_blueprints_data_assets_of_type", "create_asset", "import_assets",
     "generate_fbx_import_task", "import_fbx_asset", "generate_texture_import_task",
     "import_texture_asset", "create_material", "create_material_texture_sample",
     "convert_maya_transforms_into_unreal_transforms", "remove_sequence_camera",
     "get_subsequences"}

\* module.attr: the attribute, or AttributeError when the module has none of
\* that name
GetAttr(attributes, attr) ==
    IF attr \in attributes THEN Return(attr) ELSE Raise("AttributeError")

FbxFileFormat == <<"{", "}", ".", "f", "b", "x">>

\* os.path.join(directory, file) for a directory not ending in the separator
PathJoin(directory, file) == directory \o "/" \o file

Info(msg, about) == [level |-> "info", msg |-> msg, about |-> about]

FbxFilenames == {"", "hero_export"}

\* export_fbx_asset(asset, directory, fbx_filename, export_options); the host
\* answers: the option names it refuses (failing) and what running the export
\* task gives (result).  `helpers.clean_path` is looked up before its argument
\* is evaluated; what the function found would return is its application, as
\* the source has no body for it.
export_fbx_asset(asset_class, asset_name, directory, fbx_filename, export_options, failing, result) ==
    LET clean_path == GetAttr(HelpersAttributes, "clean_path")
        file == PyFormat(FbxFileFormat,
                         <<IF StrTruthy(fbx_filename) THEN fbx_filename ELSE asset_name>>).text
        fbx_path == clean_path.val \o "(" \o PathJoin(directory, file) \o ")"
        export_task == generate_asset_fbx_export_task(
                            asset_class, fbx_path, export_options, failing)
        exporting == <<Info("Exporting Asset", fbx_path)>> \o export_task.log
    IN  IF clean_path.kind = "raise"
        THEN [ret |-> [kind |-> "raise", exc |-> clean_path.exc],
              log |-> <<>>, host |-> <<>>]
        ELSE IF export_task.isNone
        THEN [ret |-> [kind |-> "return", val |-> PyNone],
              log |-> Append(exporting,
                             Warning("Was not possible to generate asset FBX export task",
                                     asset_class)),
              host |-> <<>>]
        ELSE [ret |-> [kind |-> "return", val |-> IF result THEN fbx_path ELSE ""],
              log |-> exporting,
              host |-> <<[fn |-> "run_asset_export_task",
                          filename |-> export_task.task.filename, res |-> result]>>]

-----------------------------------------------------------------------------
(* helpers.py, assets.py: import_assets, import_fbx_asset,                  *)
(* import_texture_asset                                                    *)

MaxTasks == 2
MaxPaths == 2

\* the object paths the host may report for a task
ObjectPaths == {"/Game/Hero/SM_Hero", "/Game/Hero/M_Hero"}

\* task.imported_object_paths after the host ran the tasks
ImportedObjectPaths == SeqsUpTo(ObjectPaths, MaxPaths)

\* the file of the i-th task
TaskFilename(i) == "task" \o ToString(i) \o ".fbx"

\* the lists of tasks import_assets is handed, as the host leaves them
AssetTaskLists ==
    {[i \in 1..Len(p) |-> [filename |-> TaskFilename(i), imported_object_paths |-> p[i]]] :
        p \in SeqsUpTo(ImportedObjectPaths, MaxTasks)}

\* the inner loop, taking only the first path of a task
AppendFirstObjectPath(acc, object_paths) ==
    IF object_paths = <<>> THEN acc
    ELSE [paths |-> Append(acc.paths, Head(object_paths)),
          log   |-> Append(acc.log, Info("Imported object", Head(object_paths)))]

\* for object_path in task.imported_object_paths: log it and append it
RECURSIVE AppendObjectPaths(_, _)
AppendObjectPaths(acc, object_paths) ==
    IF object_paths = <<>> THEN acc
    ELSE AppendObjectPaths(
            [paths |-> Append(acc.paths, Head(object_paths)),
             log   |-> Append(acc.log, Info("Imported object", Head(object_paths)))],
            Tail(object_paths))

\* for task in asset_tasks: log the task, then the inner loop
RECURSIVE CollectImportedPaths(_, _)
CollectImportedPaths(acc, asset_tasks) ==
    IF asset_tasks = <<>> THEN acc
    ELSE CollectImportedPaths(
            AppendObjectPaths(
                [paths |-> acc.paths,
                 log   |-> Append(acc.log, Info("Import Task for", Head(asset_tasks).filename))],
                Head(asset_tasks).imported_object_paths),
            Tail(asset_tasks))

\* import_assets(asset_tasks): the host runs the tasks, then their paths are
\* gathered
import_assets(asset_tasks) ==
    LET collected == CollectImportedPaths([paths |-> <<>>, log |-> <<>>], asset_tasks)
    IN  [ret  |-> ReturnList(collected.paths),
         log  |-> collected.log,
         host |-> <<[fn |-> "import_asset_tasks",
                     filenames |-> [i \in 1..Len(asset_tasks) |-> asset_tasks[i].filename]]>>]

\* a task of a builder, once the host ran it
Imported(task, object_paths) ==
    [filename |-> task.task.filename, imported_object_paths |-> object_paths]

\* import_fbx_asset of helpers.py and of assets.py: one task, and the first of
\* the paths import_assets returns, '' when there is none
import_fbx_asset(defaults, filename, destination_path, destination_name, import_options, failing, object_paths) ==
    LET built == generate_fbx_import_task(
                    defaults, filename, destination_path, destination_name,
                    import_options, failing)
        imported == import_assets(<<Imported(built.task, object_paths)>>)
    IN  [ret  |-> get_first_in_list([isNone |-> FALSE, items |-> imported.ret.items], ""),
         log  |-> built.log \o imported.log,
         host |-> imported.host,
         caller_dict |-> built.caller_dict]

import_texture_asset(filename, destination_path, destination_name, import_options, failing, object_paths) ==
    LET built == generate_texture_import_task(
                    filename, destination_path, destination_name, import_options, failing)
        imported == import_assets(<<Imported(built.task, object_paths)>>)
    IN  [ret  |-> get_first_in_list([isNone |-> FALSE, items |-> imported.ret.items], ""),
         log  |-> built.log \o imported.log,
         host |-> imported.host]

-----------------------------------------------------------------------------
(* helpers.py, assets.py: create_asset                                     *)

MaxPathLen == 4

\* an asset path is the sequence of its pieces: the separator '/' and the
\* names between separators
PathPieces == {"/", "Game", "Hero"}

AssetPaths == SeqsUpTo(PathPieces, MaxPathLen)

\* the last place of sep in str, 0 when there is none
LastIndexOf(str, sep) ==
    IF \E i \in 1..Len(str) : str[i] = sep
    THEN CHOOSE i \in 1..Len(str) :
            /\ str[i] = sep
            /\ \A j \in (i + 1)..Len(str) : str[j] # sep
    ELSE 0

\* str.rsplit(sep, 1): the list of what is before and what is after the last
\* sep, or the list of str alone when it holds no sep
RSplitOnce(str, sep) ==
    LET i == LastIndexOf(str, sep)
    IN  IF i = 0 THEN <<str>>
        ELSE <<SubSeq(str, 1, i - 1), SubSeq(str, i + 1, Len(str))>>

\* the assets the host's registry may hold when create_asset(asset_path) is
\* called: any of asset_path and the next name the host would give it
RegistriesFor(asset_path) == SUBSET {asset_path, Append(asset_path, "1")}

\* the existence check that reports nothing as occupied
asset_exists_never(assets, asset_path) == FALSE

\* asset_exists: unreal.EditorAssetLibrary.does_asset_exist
asset_exists(assets, asset_path) == asset_path \in assets

\* get_asset_unique_name: the host's create_unique_asset_name gives the name
\* itself when it is free, and else the name with the first number that is
RECURSIVE UniqueFrom(_, _, _)
UniqueFrom(assets, asset_path, n) ==
    IF Append(asset_path, ToString(n)) \notin assets THEN Append(asset_path, ToString(n))
    ELSE UniqueFrom(assets, asset_path, n + 1)

get_asset_unique_name(assets, asset_path) ==
    IF asset_path \notin assets THEN asset_path ELSE UniqueFrom(assets, asset_path, 1)

create_asset(asset_path, unique_name, assets) ==
    LET used == IF unique_name THEN get_asset_unique_name(assets, asset_path)
                ELSE asset_path
        named == IF unique_name
                 THEN <<[fn |-> "create_unique_asset_name", asset_path |-> asset_path,
                         unique |-> used]>>
                 ELSE <<>>
        exists == asset_exists(assets, used)
        checked == Append(named, [fn |-> "does_asset_exist", asset_path |-> used, res |-> exists])
        package_path == PyGetItem(RSplitOnce(used, "/"), 0)
        asset_name == PyGetItem(RSplitOnce(used, "/"), 1)
    IN  IF ~exists
        THEN IF package_path.kind = "raise" THEN [ret |-> package_path, host |-> checked]
             ELSE IF asset_name.kind = "raise" THEN [ret |-> asset_name, host |-> checked]
             ELSE [ret  |-> [kind |-> "return", asset |-> "new_asset"],
                   host |-> Append(checked,
                                   [fn |-> "create_asset", asset_name |-> asset_name.val,
                                    package_path |-> package_path.val])]
        ELSE [ret  |-> [kind |-> "return", asset |-> "loaded_asset"],
              host |-> Append(checked, [fn |-> "load_asset", asset_path |-> used])]

-----------------------------------------------------------------------------
(* A call starts from a clean slate (pc = "idle"), and leaves its outcome  *)
(* in the state (pc = "done") until the caller goes on.                    *)

NoArgs == [none |-> TRUE]

NoRet == [kind |-> "none"]

\* a call that ran to its end in one step, and the dictionary object of the
\* caller as it left it
FinishedWith(o, a, r, l, h, d) ==
    /\ pc' = "done"
    /\ op' = o
    /\ args' = a
    /\ ret' = r
    /\ log' = l
    /\ host' = h
    /\ dirs' = {}
    /\ name' = ""
    /\ index' = 0
    /\ fbx_options' = d
    /\ prev' = NoRet
    /\ created_folder' = ""
    /\ todo' = <<>>

Finished(o, a, r, l, h) == FinishedWith(o, a, r, l, h, NoArgs)

Init ==
    /\ pc = "idle"
    /\ op = "none"
    /\ args = NoArgs
    /\ ret = NoRet
    /\ log = <<>>
    /\ host = <<>>
    /\ dirs = {}
    /\ name = ""
    /\ index = 0
    /\ fbx_options = NoArgs
    /\ prev = NoRet
    /\ created_folder = ""
    /\ todo = <<>>

CallGetIndexInList ==
    /\ pc = "idle"
    /\ \E l \in ListArgs, i \in -(MaxLen + IndexSlack)..(MaxLen + IndexSlack),
          d \in Defaults :
            Finished("get_index_in_list",
                     [list_arg |-> l, index |-> i, default |-> d],
                     get_index_in_list(l, i, d), <<>>, <<>>)

CallCreateTemporaryDirectory ==
    /\ pc = "idle"
    /\ \E p \in TmpPrefixes, a \in MkdtempAnswers :
        LET r == create_temporary_directory(p, a)
        IN  Finished("create_temporary_directory",
                     [prefix |-> p, mkdtemp |-> a], r.ret, <<>>, r.host)

CallGetFirstInList ==
    /\ pc = "idle"
    /\ \E l \in ListArgs, d \in Defaults :
            Finished("get_first_in_list",
                     [list_arg |-> l, index |-> 0, default |-> d],
                     get_first_in_list(l, d), <<>>, <<>>)

\* create_folder(root, name): index = 1, then the loop
CallCreateFolder ==
    /\ pc = "idle"
    /\ \E r \in Roots, n \in FolderNames, D \in HostDirs :
        /\ pc' = "create_folder"
        /\ op' = "create_folder"
        /\ args' = [root |-> r, name |-> n, existing |-> D]
        /\ ret' = [kind |-> "running"]
        /\ dirs' = D
        /\ name' = n
        /\ index' = 1
        /\ log' = <<>>
        /\ host' = <<>>
        /\ UNCHANGED <<fbx_options, prev, created_folder, todo>>

\* one iteration of `while True`: the existence check of root/name, then either
\* make_directory and break (and the return after the loop), or the suffix.
\* The value returned goes to the caller of create_folder, or, inside
\* move_assets_to_path, to created_folder, where the loop over asset_paths
\* starts.
CreateFolderIteration ==
    /\ pc = "create_folder"
    /\ index <= MaxIndex
    /\ LET path == FormatPath(args.root, name)
           exists == does_directory_exist(path)
           checked == [fn |-> "does_directory_exist", arg |-> path, res |-> exists]
       IN  IF ~exists
           THEN /\ host' = host \o <<checked, [fn |-> "make_directory", arg |-> MadePath(path)]>>
                /\ dirs' = dirs \cup {MadePath(path)}
                /\ IF op = "move_assets_to_path"
                   THEN /\ pc' = "move_assets"
                        /\ created_folder' = FormatPath(args.root, name)
                        /\ todo' = args.asset_paths
                        /\ UNCHANGED ret
                   ELSE /\ pc' = "done"
                        /\ ret' = Return(FormatPath(args.root, name))
                        /\ UNCHANGED <<created_folder, todo>>
                /\ UNCHANGED <<name, index>>
           ELSE /\ host' = Append(host, checked)
                /\ name' = Suffixed(name, index)
                /\ index' = NextIndex(index)
                /\ UNCHANGED <<pc, ret, dirs, created_folder, todo>>
    /\ UNCHANGED <<op, args, log, fbx_options, prev>>

\* move_assets_to_path(root, name, asset_paths) of helpers.py and of assets.py:
\* create_folder(root, name) first.  The host's answers are its directories
\* and, for each path of the list, the name of the asset load_asset finds
\* there (None when there is none).
CallMoveAssetsToPath ==
    /\ pc = "idle"
    /\ \E m \in Modules, r \in Roots, D \in SUBSET MoveDirUniverse, a \in MovedAssetLists :
        /\ pc' = "create_folder"
        /\ op' = "move_assets_to_path"
        /\ args' = [module |-> m, root |-> r, name |-> MoveFolderName,
                    existing |-> {FormatPath(r, d) : d \in D},
                    asset_paths |-> [i \in DOMAIN a |-> a[i].path],
                    loaded |-> [i \in DOMAIN a |-> a[i].loaded]]
        /\ ret' = [kind |-> "running"]
        /\ dirs' = {FormatPath(r, d) : d \in D}
        /\ name' = MoveFolderName
        /\ index' = 1
        /\ log' = <<>>
        /\ host' = <<>>
        /\ created_folder' = ""
        /\ todo' = <<>>
        /\ UNCHANGED <<fbx_options, prev>>

\* one iteration of `for asset_path in asset_paths`: load the asset, and rename
\* it to created_folder/<its name>; None has no get_name
MoveAssetsIteration ==
    /\ pc = "move_assets"
    /\ todo # <<>>
    /\ LET asset_path == Head(todo)
           loaded == args.loaded[Len(args.asset_paths) - Len(todo) + 1]
           load == [fn |-> "load_asset", path |-> asset_path, asset |-> loaded]
       IN  IF loaded = PyNone
           THEN /\ host' = Append(host, load)
                /\ ret' = Raise("AttributeError")
                /\ pc' = "done"
                /\ UNCHANGED todo
           ELSE /\ host' = host \o <<load,
                                     [fn |-> "rename_asset", source |-> asset_path,
                                      destination |-> MoveDestination(created_folder, loaded)]>>
                /\ todo' = Tail(todo)
                /\ UNCHANGED <<pc, ret>>
    /\ UNCHANGED <<op, args, log, dirs, name, index, fbx_options, prev, created_folder>>

\* the list is exhausted: return created_folder
MoveAssetsReturn ==
    /\ pc = "move_assets"
    /\ todo = <<>>
    /\ pc' = "done"
    /\ ret' = Return(created_folder)
    /\ UNCHANGED <<op, args, log, host, dirs, name, index, fbx_options, prev,
                   created_folder, todo>>

CallConvertTransforms ==
    /\ pc = "idle"
    /\ \E t \in TransformArgs, r \in TransformArgs, sc \in ScaleArgs :
            Finished("convert_maya_transforms_into_unreal_transforms",
                     [translation |-> t, rotation |-> r, scale |-> sc],
                     ReturnTransforms(convert_maya_transforms_into_unreal_transforms(t, r, sc)),
                     <<>>, <<>>)

\* the caller hands the returned transforms to the function once more
CallConvertTransformsAgain ==
    /\ pc = "done"
    /\ op = "convert_maya_transforms_into_unreal_transforms"
    /\ prev.kind = "none"
    /\ prev' = ret
    /\ ret' = ReturnTransforms(convert_maya_transforms_into_unreal_transforms(
                        ret.transforms.translation, ret.transforms.rotation, ret.transforms.scale))
    /\ UNCHANGED <<pc, op, args, log, host, dirs, name, index, fbx_options,
                   created_folder, todo>>

CallGenerateFbxImportTask ==
    /\ pc = "idle"
    /\ \E m \in Modules, dn \in DestinationNames, o \in FbxOptionArgs,
          F \in SUBSET FbxOptionNames :
        LET r == generate_fbx_import_task(DefaultsOf(m), "hero.fbx", "/Game/Hero", dn, o, F)
        IN  FinishedWith("generate_fbx_import_task",
                         [module |-> m, filename |-> "hero.fbx",
                          destination_path |-> "/Game/Hero", destination_name |-> dn,
                          fbx_options |-> o, failing |-> F],
                         ReturnTask(r.task), r.log, <<>>, r.caller_dict)

\* the caller builds a second task, passing the same dictionary object
CallGenerateFbxImportTaskAgain ==
    /\ pc = "done"
    /\ op = "generate_fbx_import_task"
    /\ prev.kind = "none"
    /\ LET r == generate_fbx_import_task(
                    DefaultsOf(args.module), args.filename, args.destination_path,
                    args.destination_name, fbx_options, args.failing)
       IN  /\ prev' = [kind |-> "return", task |-> ret.task, passed |-> args.fbx_options]
           /\ args' = [args EXCEPT !.fbx_options = fbx_options]
           /\ ret' = ReturnTask(r.task)
           /\ log' = r.log
           /\ fbx_options' = r.caller_dict
    /\ UNCHANGED <<pc, op, host, dirs, name, index, created_folder, todo>>

CallGenerateTextureImportTask ==
    /\ pc = "idle"
    /\ \E dn \in DestinationNames, o \in TextureOptionArgs,
          F \in SUBSET {"create_material", "no_alpha", "bogus_texture_option"} :
        LET r == generate_texture_import_task("wood.png", "/Game/Textures", dn, o, F)
        IN  FinishedWith("generate_texture_import_task",
                         [filename |-> "wood.png", destination_path |-> "/Game/Textures",
                          destination_name |-> dn, import_options |-> o, failing |-> F],
                         ReturnTask(r.task), r.log, <<>>, o)

CallGenerateAssetFbxExportTask ==
    /\ pc = "idle"
    /\ \E c \in AssetClasses, o \in ExportOptionArgs, F \in SUBSET ExportOptionNames :
        LET r == generate_asset_fbx_export_task(c, "/tmp/hero.fbx", o, F)
        IN  FinishedWith("generate_asset_fbx_export_task",
                         [asset_class |-> c, filename |-> "/tmp/hero.fbx",
                          fbx_options |-> o, failing |-> F],
                         [kind |-> "return", isNone |-> r.isNone, export_task |-> r.task],
                         r.log, <<>>, o)

CallReadJsonFile ==
    /\ pc = "idle"
    /\ \E f \in JsonFiles, mo \in BOOLEAN :
        LET r == read_json_file("options.json", f, mo)
        IN  Finished("read_json_file",
                     [filename |-> "options.json", file |-> f, maintain_order |-> mo],
                     r.ret, r.log, <<>>)

CallWriteToJsonFile ==
    /\ pc = "idle"
    /\ \E w \in JsonWrites :
        \E exc \in (IF WriteExceptions(w) = {} THEN {"ok"} ELSE WriteExceptions(w)) :
            LET r == write_to_json_file("options.json", exc)
            IN  Finished("write_to_json_file",
                         [filename |-> "options.json", write |-> w],
                         r.ret, r.log, <<>>)

CallGetAsset ==
    /\ pc = "idle"
    /\ \E d \in AssetDatas, ood \in BOOLEAN, l \in {PyNone, "<asset>"} :
        LET r == get_asset(d, l)
        IN  Finished("get_asset",
                     [asset_path |-> <<"/", "Game", "/", "Hero">>, only_on_disk |-> ood,
                      asset_data |-> d],
                     r.ret, <<>>, r.host)

CallRemoveSequenceCamera ==
    /\ pc = "idle"
    /\ \E a \in SequenceAssets, c \in CameraNames, ch \in ChildLists, t \in TrackLists :
        LET r == remove_sequence_camera(a, c, ch, t)
        IN  Finished("remove_sequence_camera",
                     [level_sequence_name |-> "/Game/Seq", camera_name |-> c, asset |-> a,
                      children |-> ch, tracks |-> t],
                     r.ret, <<>>, r.host)

CallGetSubsequences ==
    /\ pc = "idle"
    /\ \E a \in TrackedAssets, sec \in SectionLists :
            Finished("get_subsequences",
                     [level_sequence_name |-> "/Game/Seq", asset |-> a, sections |-> sec],
                     get_subsequences(a, sec), <<>>, <<>>)

CallCreateMaterial ==
    /\ pc = "idle"
    /\ \E dc \in DiffuseColors, ro \in MaterialValues, sp \in MaterialValues :
        LET r == create_material("M_Hero", "/Game/Materials", dc, ro, sp)
        IN  Finished("create_material",
                     [material_name |-> "M_Hero", material_path |-> "/Game/Materials",
                      diffuse_color |-> dc, roughness |-> ro, specular |-> sp],
                     r.ret, <<>>, r.host)

CallExportFbxAsset ==
    /\ pc = "idle"
    /\ \E c \in AssetClasses, f \in FbxFilenames, o \in ExportOptionArgs,
          F \in SUBSET {"bogus_export_option"}, res \in BOOLEAN :
        LET r == export_fbx_asset(c, "SM_Hero", "/tmp/export", f, o, F, res)
        IN  FinishedWith("export_fbx_asset",
                         [asset_class |-> c, asset_name |-> "SM_Hero",
                          directory |-> "/tmp/export", fbx_filename |-> f,
                          export_options |-> o, failing |-> F, result |-> res],
                         r.ret, r.log, r.host, o)

CallImportAssets ==
    /\ pc = "idle"
    /\ \E m \in Modules, t \in AssetTaskLists :
        LET r == import_assets(t)
        IN  Finished("import_assets", [module |-> m, asset_tasks |-> t],
                     r.ret, r.log, r.host)

CallImportFbxAsset ==
    /\ pc = "idle"
    /\ \E m \in Modules, o \in FbxOptionArgs, F \in SUBSET {"bogus_option"},
          p \in ImportedObjectPaths :
        LET r == import_fbx_asset(DefaultsOf(m), "hero.fbx", "/Game/Hero", PyNone, o, F, p)
        IN  FinishedWith("import_fbx_asset",
                         [module |-> m, filename |-> "hero.fbx",
                          destination_path |-> "/Game/Hero", destination_name |-> PyNone,
                          import_options |-> o, failing |-> F,
                          imported_object_paths |-> p],
                         r.ret, r.log, r.host, r.caller_dict)

CallImportTextureAsset ==
    /\ pc = "idle"
    /\ \E o \in TextureOptionArgs, F \in SUBSET {"bogus_texture_option"},
          p \in ImportedObjectPaths :
        LET r == import_texture_asset("wood.png", "/Game/Textures", PyNone, o, F, p)
        IN  FinishedWith("import_texture_asset",
                         [filename |-> "wood.png", destination_path |-> "/Game/Textures",
                          destination_name |-> PyNone, import_options |-> o,
                          failing |-> F, imported_object_paths |-> p],
                         r.ret, r.log, r.host, o)

CallCreateAsset ==
    /\ pc = "idle"
    /\ \E m \in Modules, p \in AssetPaths, u \in BOOLEAN :
        \E registry \in RegistriesFor(p) :
            LET r == create_asset(p, u, registry)
            IN  Finished("create_asset",
                         [module |-> m, asset_path |-> p, unique_name |-> u,
                          assets |-> registry],
                         r.ret, <<>>, r.host)

-----------------------------------------------------------------------------

\* the call is over and the caller goes on: nothing of a call outlives it in
\* this module (its functions keep no state of their own)
CallerContinues ==
    /\ pc = "done"
    /\ pc' = "idle"
    /\ op' = "none"
    /\ args' = NoArgs
    /\ ret' = NoRet
    /\ log' = <<>>
    /\ host' = <<>>
    /\ dirs' = {}
    /\ name' = ""
    /\ index' = 0
    /\ fbx_options' = NoArgs
    /\ prev' = NoRet
    /\ created_folder' = ""
    /\ todo' = <<>>

Next ==
    \/ CallGetIndexInList
    \/ CallGetFirstInList
    \/ CallCreateTemporaryDirectory
    \/ CallCreateFolder
    \/ CreateFolderIteration
    \/ CallMoveAssetsToPath
    \/ MoveAssetsIteration
    \/ MoveAssetsReturn
    \/ CallConvertTransforms
    \/ CallConvertTransformsAgain
    \/ CallGenerateFbxImportTask
    \/ CallGenerateFbxImportTaskAgain
    \/ CallGenerateTextureImportTask
    \/ CallGenerateAssetFbxExportTask
    \/ CallReadJsonFile
    \/ CallWriteToJsonFile
    \/ CallGetAsset
    \/ CallRemoveSequenceCamera
    \/ CallGetSubsequences
    \/ CallCreateMaterial
    \/ CallExportFbxAsset
    \/ CallImportAssets
    \/ CallImportFbxAsset
    \/ CallImportTextureAsset
    \/ CallCreateAsset
    \/ CallerContinues

Spec == Init /\ [][Next]_vars

\* a call in progress goes on: the loop of create_folder is the only code
\* running (one thread, no cancellation), so its next iteration is taken
FairSpec == Spec /\ WF_vars(CreateFolderIteration)

-----------------------------------------------------------------------------
(* Claims *)

IsListCall == op \in {"get_index_in_list", "get_first_in_list"}

\* the index is outside the list: None and the empty list have no index at
\* all, a list of n items has the indexes -n .. n-1
OutOfRange(list_arg, i) ==
    \/ list_arg.isNone
    \/ i >= Len(list_arg.items)
    \/ i < -Len(list_arg.items)

\* C1: get_index_in_list and get_first_in_list return the default, and raise
\* nothing, for every list (the empty list and None included) and every
\* index, positive or negative, out of range for that list.
C1_OutOfRangeGivesDefault ==
    (IsListCall /\ OutOfRange(args.list_arg, args.index))
        => ret = Return(args.default)

\* C1 witness: a negative index below -len on a non-empty list gave the default
C1_Witness ==
    /\ op = "get_index_in_list"
    /\ Len(args.list_arg.items) = 2
    /\ args.index = -3
    /\ args.default = "dflt"
    /\ ret = Return("dflt")

\* the existence checks of the call so far that reported a collision
Collisions == SelectSeq(host, LAMBDA c : c.fn = "does_directory_exist" /\ c.res)

MadeDirs == SelectSeq(host, LAMBDA c : c.fn = "make_directory")

CreateFolderReturned == op = "create_folder" /\ pc = "done"

\* C2: create_folder always terminates: whatever the root, the name and the
\* (finite) set of directories the host holds, the loop reaches a candidate
\* the existence check reports free, creates it and returns.
C2_CreateFolderTerminates ==
    (op = "create_folder" /\ pc = "create_folder") ~>
        (/\ CreateFolderReturned
         /\ ret.kind = "return"
         /\ ret.val \notin args.existing
         /\ ret.val \in dirs
         /\ MadeDirs = <<[fn |-> "make_directory", arg |-> ret.val]>>)

\* the loop counter of the model is never what stops the loop
C2_LoopNotCut == pc = "create_folder" => index <= MaxIndex

\* C2 witness: a call that met two collisions returned
C2_Witness ==
    /\ CreateFolderReturned
    /\ Len(Collisions) = 2
    /\ ret.val \in dirs

\* C3: create_folder appends a suffix to the name only when the existence
\* check reports a collision for the current candidate, the suffixes appended
\* on successive collisions are 1, 2, 3, ..., and when root/name does not
\* exist the folder is created and returned as exactly root/name.
C3_SuffixOnlyOnCollision ==
    op = "create_folder" =>
        LET k == Len(Collisions) IN
        /\ name = Chain(args.name, k)
        /\ index = k + 1
        /\ \A j \in 1..k :
            /\ Collisions[j].arg = FormatPath(args.root, Chain(args.name, j - 1))
            /\ Collisions[j].arg \in args.existing
        /\ pc = "done" =>
            /\ ret = Return(FormatPath(args.root, Chain(args.name, k)))
            /\ ret.val \notin args.existing
            /\ (FormatPath(args.root, args.name) \notin args.existing
                    => ret = Return(FormatPath(args.root, args.name)))

\* C3 witness: after three collisions the folder is root/name123
C3_Witness ==
    /\ CreateFolderReturned
    /\ args.name = "Target"
    /\ Len(Collisions) = 3
    /\ ret.val = "/Game/Target123"

\* the conversion was applied to three-component values, and then to its result
ConvertedTwice ==
    /\ op = "convert_maya_transforms_into_unreal_transforms"
    /\ prev.kind = "return"
    /\ Len(args.translation) = 3
    /\ Len(args.rotation) = 3
    /\ Len(args.scale) = 3

\* C4 (as claimed): applying the conversion twice returns the original
\* translation and scale, and the original rotation with exactly one of its
\* three components negated.
C4_TwiceFlipsOneRotationAxis ==
    ConvertedTwice =>
        /\ ret.transforms.translation = args.translation
        /\ ret.transforms.scale = args.scale
        /\ \E i \in 1..3 :
            /\ ret.transforms.rotation[i] = -args.rotation[i]
            /\ \A j \in (1..3) \ {i} : ret.transforms.rotation[j] = args.rotation[j]

\* C4 (amended): applying the conversion twice returns the original
\* translation and scale, and the original rotation with its first component
\* kept and its second and third components both negated.
C4_TwiceFlipsTwoRotationAxes ==
    ConvertedTwice =>
        /\ ret.transforms.translation = args.translation
        /\ ret.transforms.scale = args.scale
        /\ ret.transforms.rotation =
                <<args.rotation[1], -args.rotation[2], -args.rotation[3]>>

\* C4 witness: a triple with distinct components went through twice
C4_Witness ==
    /\ ConvertedTwice
    /\ args.translation = <<1, 0, -1>>
    /\ prev.transforms.translation = <<1, -1, 0>>
    /\ args.rotation = <<1, 1, -1>>
    /\ prev.transforms.rotation = <<1, -1, -1>>
    /\ ret.transforms.rotation = <<1, -1, 1>>
    /\ args.scale = <<1, 2, 3>>

\* every option of the dictionary went to the object unless its
\* set_editor_property call raised
OptionsApplied(options, props) ==
    \A n \in DOMAIN options :
        IF n \in args.failing THEN n \notin DOMAIN props
        ELSE n \in DOMAIN props /\ props[n] = options[n]

WarningsAbout(n) == SelectSeq(log, LAMBDA m : m.level = "warning" /\ m.about = n)

\* one warning for each of the names whose call raised, and no other message
OneWarningPerFailure(names) ==
    /\ \A n \in names \cap args.failing : Len(WarningsAbout(n)) = 1
    /\ Len(log) = Cardinality(names \cap args.failing)

\* the options generate_fbx_import_task hands to set_editor_property: those of
\* the dictionary given (of the module's defaults, when it is None or empty)
\* but the two keys it takes out
FbxBaseOptions ==
    IF DictTruthy(args.fbx_options)
    THEN DictRemove(args.fbx_options.items, "mesh_type_to_import")
    ELSE DefaultsOf(args.module)

FbxSkeletalOptions ==
    IF DictTruthy(args.fbx_options) /\ args.fbx_options.hasSk
    THEN args.fbx_options.sk ELSE EmptyDict

ExportOptions ==
    IF DictTruthy(args.fbx_options) THEN args.fbx_options.items
    ELSE DEFAULT_ASSETS_FBX_EXPORT_OPTIONS

\* C5: the three task builders set each option on its own: whichever set of
\* option names makes set_editor_property raise, the builder returns a task,
\* every option whose call did not raise is applied, and one warning is
\* logged per failing option (generate_asset_fbx_export_task: for an asset
\* with a compatible exporter).
C5_OptionsSetOneByOne ==
    /\ op = "generate_fbx_import_task" =>
            /\ ret.kind = "return"
            /\ OptionsApplied(FbxBaseOptions, ret.task.options.props)
            /\ OptionsApplied(FbxSkeletalOptions,
                              ret.task.options.skeletal_mesh_import_data.props)
            /\ OneWarningPerFailure(DOMAIN FbxBaseOptions \cup DOMAIN FbxSkeletalOptions)
    /\ op = "generate_texture_import_task" =>
            /\ ret.kind = "return"
            /\ OptionsApplied(args.import_options.items, ret.task.factory.props)
            /\ OneWarningPerFailure(DOMAIN args.import_options.items)
    /\ (op = "generate_asset_fbx_export_task"
            /\ args.asset_class \in {"StaticMesh", "SkeletalMesh"}) =>
            /\ ret.kind = "return"
            /\ ~ret.isNone
            /\ OptionsApplied(ExportOptions, ret.export_task.options.props)
            /\ OneWarningPerFailure(DOMAIN ExportOptions)

\* C5 witness: of three options given, the first in order failed, and the
\* two after it were applied
C5_Witness ==
    /\ op = "generate_fbx_import_task"
    /\ DOMAIN args.fbx_options.items = {"import_materials", "bogus_option"}
    /\ DOMAIN args.fbx_options.sk = {"import_morph_targets"}
    /\ args.failing = {"import_materials"}
    /\ DOMAIN ret.task.options.props = {"bogus_option"}
    /\ DOMAIN ret.task.options.skeletal_mesh_import_data.props = {"import_morph_targets"}
    /\ Len(log) = 1

\* C10: generate_fbx_import_task leaves the dictionary of its caller as it
\* was, so that two successive calls passing the same dictionary object give
\* tasks with the same mesh type and the same skeletal mesh import data.
C10_CallerDictionaryUnchanged ==
    op = "generate_fbx_import_task" =>
        /\ fbx_options = args.fbx_options
        /\ prev.kind = "return" =>
            /\ fbx_options = prev.passed
            /\ ret.task.options.mesh_type_to_import
                    = prev.task.options.mesh_type_to_import
            /\ ret.task.options.skeletal_mesh_import_data
                    = prev.task.options.skeletal_mesh_import_data

\* read_json_file could not read its file: it is missing or not accessible,
\* it cannot be opened, or its content is not JSON
ReadFailed ==
    \/ args.file.stat # "ok"
    \/ args.file.st_size # 0 /\ (args.file.open # "ok" \/ args.file.load # "ok")

\* C6: every failure of read_json_file to read its file logs a warning and
\* then raises the exception to the caller.
C6_ReadFailureWarnedAndRaised ==
    (op = "read_json_file" /\ ReadFailed) =>
        /\ ret.kind = "raise"
        /\ Len(log) = 1
        /\ log[1].level = "warning"

WriteFailed ==
    args.write.open # "ok" \/ args.write.dump # "ok" \/ args.write.write # "ok"

\* C7: every failure of write_to_json_file to write its data is logged as an
\* error and suppressed (None is returned, nothing is raised); on success
\* the file name is returned.
C7_WriteFailureLoggedAndSuppressed ==
    op = "write_to_json_file" =>
        IF WriteFailed
        THEN /\ ret.kind = "return"
             /\ ret.isNone
             /\ Len(log) = 1
             /\ log[1].level = "error"
        ELSE ret = [kind |-> "return", isNone |-> FALSE, val |-> args.filename]

\* the host calls that change the sequence or the editor
Mutations ==
    SelectSeq(host, LAMBDA c :
        c.fn \in {"close_level_sequence", "child.remove", "remove_track",
                  "binding.remove", "refresh_current_level_sequence",
                  "save_loaded_asset"})

\* a binding of the camera asked for: its name or its display name is camera_name
BindingMatchesByName(binding, camera_name) ==
    binding.name = camera_name \/ binding.display_name = camera_name

\* the bindings of the sequence that are the camera asked for
BindingsOfCamera ==
    {i \in 1..Len(args.asset.bindings) :
        BindingMatchesByName(args.asset.bindings[i], args.camera_name)}

\* C8: a missing host object gives the sentinel and no host mutation:
\* remove_sequence_camera returns False and changes nothing when the sequence
\* cannot be loaded or has no binding for the camera; get_subsequences
\* returns an empty list when the sequence cannot be loaded or has no
\* sub-sequence track; get_asset returns None and loads nothing when the
\* registry has no data for the path.
C8_MissingObjectsShortCircuit ==
    /\ (op = "remove_sequence_camera"
            /\ (args.asset.isNone \/ BindingsOfCamera = {})) =>
            /\ ret = ReturnBool(FALSE)
            /\ Mutations = <<>>
    /\ (op = "get_subsequences"
            /\ (args.asset.isNone
                    \/ \A i \in 1..Len(args.asset.tracks) :
                            args.asset.tracks[i] # "MovieSceneSubTrack")) =>
            ret = ReturnList(<<>>)
    /\ (op = "get_asset" /\ args.asset_data.isNone) =>
            /\ ret.kind = "return"
            /\ ret.isNone
            /\ host = <<>>

\* the bindings remove() was called on
RemovedBindings ==
    {host[i].target : i \in {j \in 1..Len(host) : host[j].fn = "binding.remove"}}

\* C9: remove_sequence_camera removes the camera of the given name: the
\* binding removed is one whose name or display name is camera_name, no other
\* binding is removed, and True is returned exactly when there was such a
\* binding and it was removed.
C9_RemovesTheNamedCamera ==
    op = "remove_sequence_camera" =>
        /\ RemovedBindings \subseteq BindingsOfCamera
        /\ ret = ReturnBool(TRUE) <=> (BindingsOfCamera # {} /\ RemovedBindings # {})
        /\ ret \in {ReturnBool(TRUE), ReturnBool(FALSE)}

\* C11: get_index_in_list returns the item at the index whenever there is
\* one: for every non-empty list and every index from -len to len-1 the
\* result is list[index], not the default.
C11_ValidIndexGivesItem ==
    (/\ op = "get_index_in_list"
     /\ ~args.list_arg.isNone
     /\ -Len(args.list_arg.items) <= args.index
     /\ args.index < Len(args.list_arg.items)) =>
        ret = Return(args.list_arg.items[
                IF args.index >= 0 THEN args.index + 1
                ELSE Len(args.list_arg.items) + args.index + 1])

\* C12: create_temporary_directory, for every prefix, makes a temporary
\* directory whose name starts with the prefix and returns its path, and
\* raises nothing (the host making the directory).
C12_TemporaryDirectoryCreated ==
    (op = "create_temporary_directory" /\ args.mkdtemp # "OSError") =>
        /\ ret.kind = "return"
        /\ Len(host) = 1
        /\ host[1].fn = "mkdtemp"
        /\ \E tail \in {"_tmp_", "}_tmp_"} : host[1].prefix = args.prefix \o tail


\* the values create_material set on a node of the material
ValuesSetOn(node) ==
    SelectSeq(host, LAMBDA c : c.fn = "set_editor_property" /\ c.node = node)

\* C13: create_material applies the specular argument to the Specular node
\* and the roughness argument to the Roughness node, each independently of
\* the other: a node is made exactly when its argument is not None and holds
\* that argument.
C13_SpecularAndRoughnessIndependent ==
    op = "create_material" =>
        /\ ValuesSetOn("ts_node_roughness") =
             (IF args.roughness = PyNone THEN <<>>
              ELSE <<SetProperty("ts_node_roughness", "R", args.roughness)>>)
        /\ ValuesSetOn("ts_node_specular") =
             (IF args.specular = PyNone THEN <<>>
              ELSE <<SetProperty("ts_node_specular", "R", args.specular)>>)

HasExporter(asset_class) == asset_class \in {"StaticMesh", "SkeletalMesh"}

ExportRuns == SelectSeq(host, LAMBDA c : c.fn = "run_asset_export_task")

\* C14: export_fbx_asset returns the path of the FBX file when the host
\* reports the export done, the empty string when it reports it failed, and
\* None, the export never run, when the asset is neither a StaticMesh nor a
\* SkeletalMesh.
C14_ExportReturnsPathEmptyOrNone ==
    op = "export_fbx_asset" =>
        /\ ret.kind = "return"
        /\ IF HasExporter(args.asset_class)
           THEN /\ Len(ExportRuns) = 1
                /\ ret.val = (IF args.result THEN ExportRuns[1].filename ELSE "")
           ELSE /\ ExportRuns = <<>>
                /\ ret.val = PyNone

\* the number of paths the tasks before task t hold
RECURSIVE PathsBefore(_, _)
PathsBefore(asset_tasks, t) ==
    IF t = 1 THEN 0
    ELSE PathsBefore(asset_tasks, t - 1) + Len(asset_tasks[t - 1].imported_object_paths)

\* paths is the paths of the tasks, in task order and then in path order:
\* path k of task t sits at the place after all paths of the tasks before t
\* and the k - 1 paths before it, and there is no other place
InTaskThenPathOrder(paths, asset_tasks) ==
    /\ Len(paths) = PathsBefore(asset_tasks, Len(asset_tasks) + 1)
    /\ \A t \in 1..Len(asset_tasks) :
         \A k \in 1..Len(asset_tasks[t].imported_object_paths) :
            paths[PathsBefore(asset_tasks, t) + k] = asset_tasks[t].imported_object_paths[k]

\* C15: import_assets returns every imported object path of every task, in
\* task order and then in path order, none dropped and none added;
\* import_fbx_asset and import_texture_asset return the first path of their
\* one task, or '' when the host imported nothing.
C15_ImportedPathsInOrder ==
    /\ op = "import_assets" =>
         /\ ret.kind = "return"
         /\ InTaskThenPathOrder(ret.items, args.asset_tasks)
    /\ op \in {"import_fbx_asset", "import_texture_asset"} =>
         ret = Return(IF args.imported_object_paths = <<>> THEN ""
                      ELSE args.imported_object_paths[1])

\* C15 witness: two tasks of two paths each gave four paths, the first task's
\* first, the second path of the first task differing from the first path of
\* the second
C15_Witness ==
    /\ op = "import_assets"
    /\ Len(args.asset_tasks) = 2
    /\ Len(ret.items) = 4
    /\ ret.items[2] # ret.items[3]
    /\ ret.items[1] = args.asset_tasks[1].imported_object_paths[1]

CreateCalls == SelectSeq(host, LAMBDA c : c.fn = "create_asset")

\* the path the existence check of the call was asked about: asset_path, or
\* the unique name the host gave for it
CheckedPath == SelectSeq(host, LAMBDA c : c.fn = "does_asset_exist")[1].asset_path

CreatedAt(c) == c.package_path \o <<"/">> \o c.asset_name

\* one create call, for the checked path split at its last '/'
OneCreateCallFor(path) ==
    /\ Len(CreateCalls) = 1
    /\ CreatedAt(CreateCalls[1]) = path
    /\ "/" \notin {CreateCalls[1].asset_name[i] : i \in DOMAIN CreateCalls[1].asset_name}
    /\ ret = [kind |-> "return", asset |-> "new_asset"]

\* with unique_name False and an asset at asset_path: the loaded asset, and
\* no create call
ExistingAssetLoaded ==
    (~args.unique_name /\ args.asset_path \in args.assets) =>
        /\ ret = [kind |-> "return", asset |-> "loaded_asset"]
        /\ CreateCalls = <<>>
        /\ host[Len(host)] = [fn |-> "load_asset", asset_path |-> args.asset_path]

NeverCreatesAtOccupiedPath ==
    \A i \in DOMAIN CreateCalls : CreatedAt(CreateCalls[i]) \notin args.assets

\* C16 as stated: create_asset never asks the host to create an asset at an
\* occupied path: with unique_name False and an existing asset at asset_path
\* it returns the loaded asset and makes no create call; otherwise it makes
\* exactly one create call whose package path and asset name are the path
\* split at its last '/'.
C16_OneCreateCallOtherwise ==
    op = "create_asset" =>
        /\ NeverCreatesAtOccupiedPath
        /\ ExistingAssetLoaded
        /\ ~(~args.unique_name /\ args.asset_path \in args.assets) =>
                OneCreateCallFor(CheckedPath)

HasSeparator(path) == \E i \in DOMAIN path : path[i] = "/"

\* C16, amended: as stated when the path holds a '/'; a path with no '/' has
\* no second part, IndexError is raised and no create call is made.
C16_OneCreateCallWhenSeparated ==
    op = "create_asset" =>
        /\ NeverCreatesAtOccupiedPath
        /\ ExistingAssetLoaded
        /\ ~(~args.unique_name /\ args.asset_path \in args.assets) =>
                IF HasSeparator(CheckedPath)
                THEN OneCreateCallFor(CheckedPath)
                ELSE ret = Raise("IndexError") /\ CreateCalls = <<>>

\* C16 witness: unique_name True on an occupied path made one create call,
\* for the host's unique name in the same package
C16_Witness ==
    /\ op = "create_asset"
    /\ args.unique_name
    /\ args.asset_path = <<"/", "Game", "/", "Hero">>
    /\ args.asset_path \in args.assets
    /\ Len(CreateCalls) = 1
    /\ CreateCalls[1].package_path = <<"/", "Game">>
    /\ CreatedAt(CreateCalls[1]) # args.asset_path

\* the names generate_fbx_import_task handed to set_editor_property of the FBX
\* import UI: those set, and those whose call raised
PassedToImportUI ==
    DOMAIN ret.task.options.props
        \cup {n \in FbxOptionNames \cup {"mesh_type_to_import", "skeletal_mesh_import_data"} :
                \E i \in DOMAIN log :
                    /\ log[i].msg = "Was not possible to set FBX Import property"
                    /\ log[i].about = n}

\* the options given hold a truthy 'mesh_type_to_import'
AsksForSkeletal(options) ==
    /\ ~options.isNone
    /\ "mesh_type_to_import" \in DOMAIN options.items
    /\ options.items["mesh_type_to_import"]

\* C17: the task of generate_fbx_import_task has mesh type SKELETAL_MESH
\* exactly when the options given hold a truthy 'mesh_type_to_import', and
\* STATIC_MESH otherwise (options None, empty, or without the key), whatever
\* other options were set or failed; 'mesh_type_to_import' and
\* 'skeletal_mesh_import_data' are never handed to set_editor_property of the
\* FBX import UI.
C17_MeshTypeFromOptionOnly ==
    op = "generate_fbx_import_task" =>
        /\ ret.task.options.mesh_type_to_import =
             (IF AsksForSkeletal(args.fbx_options) THEN "FBXIT_SKELETAL_MESH"
              ELSE "FBXIT_STATIC_MESH")
        /\ "mesh_type_to_import" \notin PassedToImportUI
        /\ "skeletal_mesh_import_data" \notin PassedToImportUI

\* C17 witness: a skeletal task whose options also held skeletal import data
\* and an option that failed
C17_Witness ==
    /\ op = "generate_fbx_import_task"
    /\ AsksForSkeletal(args.fbx_options)
    /\ args.fbx_options.hasSk
    /\ "bogus_option" \in DOMAIN args.fbx_options.items \cap args.failing
    /\ ret.task.options.mesh_type_to_import = "FBXIT_SKELETAL_MESH"
    /\ DOMAIN ret.task.options.props = {"import_materials"}

\* the places in the host calls of the call where fn was called
PlacesOf(fn) == {i \in DOMAIN host : host[i].fn = fn}

Renames == SelectSeq(host, LAMBDA c : c.fn = "rename_asset")

\* every path of asset_paths names an asset the host can load
AllAssetsLoad == \A j \in DOMAIN args.loaded : args.loaded[j] # PyNone

C19_MakesOneFreshDirectory ==
    op = "create_folder" =>
        /\ pc = "create_folder" => MadeDirs = <<>> /\ dirs = args.existing
        /\ pc = "done" =>
            /\ Len(MadeDirs) = 1
            /\ host[Len(host)] = [fn |-> "make_directory", arg |-> ret.val]
            /\ host[Len(host) - 1] =
                    [fn |-> "does_directory_exist", arg |-> ret.val, res |-> FALSE]
            /\ ret.val \notin args.existing
            /\ dirs = args.existing \cup {ret.val}
        /\ \A i \in DOMAIN host : host[i].fn \in {"does_directory_exist", "make_directory"}

\* C19 witness: with root/name taken, the one directory made is root/name1,
\* and root/name is as it was
C19_Witness ==
    /\ CreateFolderReturned
    /\ args.existing = {FormatPath(args.root, args.name)}
    /\ MadeDirs = <<[fn |-> "make_directory", arg |-> FormatPath(args.root, args.name) \o "1"]>>
    /\ dirs = {FormatPath(args.root, args.name), ret.val}

====
